---------------------------- MODULE Spec2Model ----------------------------
(***************************************************************************)
(* A model of basketbets.py: the lookup of two teams, the fetch of their   *)
(* recent games, the aggregation of points scored and allowed, and the     *)
(* conversion of the expected margin into win probabilities and moneyline  *)
(* odds.                                                                   *)
(*                                                                         *)
(* Python's int is unbounded and its float is an IEEE-754 binary64.  TLC's *)
(* integers are 32 bits wide, so naturals are kept as sequences of limbs   *)
(* (least significant first) and a float as a sign, a 53-bit significand   *)
(* and an exponent; every float operation computes the exact result and    *)
(* rounds it once, to nearest, ties to even, as the hardware does.         *)
(***************************************************************************)
EXTENDS Integers, Sequences, FiniteSets

(***************************************************************************)
(* Unbounded naturals: <<l1, ..., lk>> stands for l1 + l2*Base + ...,      *)
(* with lk # 0; <<>> is zero.                                              *)
(***************************************************************************)
LimbBits == 24

Base == 2^LimbBits

RECURSIVE BNorm(_)
BNorm(a) ==
    IF a = <<>> THEN a
    ELSE IF a[Len(a)] = 0 THEN BNorm(SubSeq(a, 1, Len(a) - 1))
    ELSE a

RECURSIVE BFromNat(_)
BFromNat(n) ==
    IF n = 0 THEN <<>> ELSE <<n % Base>> \o BFromNat(n \div Base)

Limb(a, i) == IF i <= Len(a) THEN a[i] ELSE 0

RECURSIVE BCmpAt(_, _, _)
BCmpAt(a, b, i) ==
    IF i = 0 THEN 0
    ELSE IF a[i] # b[i] THEN (IF a[i] < b[i] THEN -1 ELSE 1)
    ELSE BCmpAt(a, b, i - 1)

BCmp(a, b) ==
    IF Len(a) # Len(b) THEN (IF Len(a) < Len(b) THEN -1 ELSE 1)
    ELSE BCmpAt(a, b, Len(a))

RECURSIVE BAddFrom(_, _, _, _)
BAddFrom(a, b, i, c) ==
    IF i > Len(a) /\ i > Len(b) THEN (IF c = 0 THEN <<>> ELSE <<c>>)
    ELSE LET s == Limb(a, i) + Limb(b, i) + c
         IN  <<s % Base>> \o BAddFrom(a, b, i + 1, s \div Base)

BAdd(a, b) == BAddFrom(a, b, 1, 0)

RECURSIVE BSubFrom(_, _, _, _)
BSubFrom(a, b, i, br) ==
    IF i > Len(a) THEN <<>>
    ELSE LET d == a[i] - Limb(b, i) - br
         IN  <<IF d < 0 THEN d + Base ELSE d>>
                 \o BSubFrom(a, b, i + 1, IF d < 0 THEN 1 ELSE 0)

\* a - b, for a >= b
BSub(a, b) == BNorm(BSubFrom(a, b, 1, 0))

RECURSIVE BMulFrom(_, _, _, _)
BMulFrom(a, c, i, carry) ==
    IF i > Len(a) THEN BFromNat(carry)
    ELSE LET p == a[i] * c + carry
         IN  <<p % Base>> \o BMulFrom(a, c, i + 1, p \div Base)

\* a * c, for a small c (c <= 127 keeps every product within 31 bits)
BMulSmall(a, c) == BNorm(BMulFrom(a, c, 1, 0))

RECURSIVE BShlBitsFrom(_, _, _, _)
BShlBitsFrom(a, r, i, carry) ==
    IF i > Len(a) THEN (IF carry = 0 THEN <<>> ELSE <<carry>>)
    ELSE LET lo == a[i] % 2^(LimbBits - r)
             hi == a[i] \div 2^(LimbBits - r)
         IN  <<lo * 2^r + carry>> \o BShlBitsFrom(a, r, i + 1, hi)

RECURSIVE ZeroLimbs(_)
ZeroLimbs(q) == IF q = 0 THEN <<>> ELSE <<0>> \o ZeroLimbs(q - 1)

\* a * 2^k
BShl(a, k) ==
    IF a = <<>> THEN a
    ELSE ZeroLimbs(k \div LimbBits) \o BShlBitsFrom(a, k % LimbBits, 1, 0)

RECURSIVE BShrBitsFrom(_, _, _)
BShrBitsFrom(a, r, i) ==
    IF i > Len(a) THEN <<>>
    ELSE <<(a[i] \div 2^r) + (Limb(a, i + 1) % 2^r) * 2^(LimbBits - r)>>
             \o BShrBitsFrom(a, r, i + 1)

\* a \div 2^k
BShr(a, k) ==
    LET q == k \div LimbBits
    IN  IF q >= Len(a) THEN <<>>
        ELSE BNorm(BShrBitsFrom(SubSeq(a, q + 1, Len(a)), k % LimbBits, 1))

\* bit i of a, bit 0 the least significant
BBit(a, i) == (Limb(a, i \div LimbBits + 1) \div 2^(i % LimbBits)) % 2

RECURSIVE NatBitLen(_)
NatBitLen(n) == IF n = 0 THEN 0 ELSE 1 + NatBitLen(n \div 2)

BBitLen(a) ==
    IF a = <<>> THEN 0 ELSE (Len(a) - 1) * LimbBits + NatBitLen(a[Len(a)])

\* a % 2^k = 0
BLowZero(a, k) == BShl(BShr(a, k), k) = a

\* 2 * a + c, for a bit c
BDouble(a, c) == BAddFrom(a, a, 1, c)

\* one step of the long division of a by b: bit i of a is brought down
BDivBit(st, a, b, i) ==
    LET r2 == BDouble(st.r, BBit(a, i))
        ge == BCmp(r2, b) >= 0
    IN  [q |-> BDouble(st.q, IF ge THEN 1 ELSE 0),
         r |-> IF ge THEN BSub(r2, b) ELSE r2]

\* the steps for bits hi down to lo of a, the upper half of the bits first
\* (the remainder stays below b throughout)
RECURSIVE BDivRange(_, _, _, _, _)
BDivRange(st, a, b, hi, lo) ==
    IF hi < lo THEN st
    ELSE IF hi = lo THEN BDivBit(st, a, b, hi)
    ELSE LET mid   == (hi + lo) \div 2
             upper == BDivRange(st, a, b, hi, mid + 1)
         IN  IF BCmp(upper.r, b) < 0 THEN BDivRange(upper, a, b, mid, lo)
             ELSE upper

\* quotient and remainder of a by b # 0, one bit of the quotient at a time;
\* the leading bits of a, one fewer than b has, are below b and make the
\* first remainder
BDivMod(a, b) ==
    LET la == BBitLen(a)
        lb == BBitLen(b)
    IN  IF la < lb THEN [q |-> <<>>, r |-> a]
        ELSE BDivRange([q |-> <<>>, r |-> BShr(a, la - lb + 1)], a, b, la - lb, 0)

(***************************************************************************)
(* Python float: [s, m, e] stands for (-1)^s * m * 2^e with m of exactly   *)
(* Prec bits, or m = <<>> and e = 0 for a zero (of either sign).           *)
(***************************************************************************)
Prec == 53

FZero(s) == [s |-> s, m |-> <<>>, e |-> 0]

\* (-1)^s * (n + f) * 2^e rounded to nearest, ties to even, where the
\* fraction f is 0 < f < 1 when sticky and 0 otherwise
FRound(s, n, e, sticky) ==
    LET len == BBitLen(n)
    IN  IF len = 0 THEN FZero(s)
        ELSE IF len <= Prec
        THEN [s |-> s, m |-> BShl(n, Prec - len), e |-> e - (Prec - len)]
        ELSE LET sh   == len - Prec
                 q    == BShr(n, sh)
                 half == BBit(n, sh - 1) = 1
                 rest == sticky \/ ~BLowZero(n, sh - 1)
                 up   == half /\ (rest \/ BBit(q, 0) = 1)
                 q2   == IF up THEN BAdd(q, <<1>>) ELSE q
             IN  IF BBitLen(q2) > Prec
                 THEN [s |-> s, m |-> BShr(q2, 1), e |-> e + sh + 1]
                 ELSE [s |-> s, m |-> q2, e |-> e + sh]

\* float(i) of a Python int
FFromInt(i) ==
    IF i < 0 THEN FRound(1, BFromNat(-i), 0, FALSE)
    ELSE FRound(0, BFromNat(i), 0, FALSE)

FIsZero(x) == x.m = <<>>

FNeg(x) == [x EXCEPT !.s = 1 - x.s]

FAbs(x) == [x EXCEPT !.s = 0]

Min(i, j) == IF i < j THEN i ELSE j

\* x + y
FAdd(x, y) ==
    IF FIsZero(x) /\ FIsZero(y) THEN FZero(IF x.s = 1 /\ y.s = 1 THEN 1 ELSE 0)
    ELSE IF FIsZero(x) THEN y
    ELSE IF FIsZero(y) THEN x
    ELSE LET lo == Min(x.e, y.e)
             nx == BShl(x.m, x.e - lo)
             ny == BShl(y.m, y.e - lo)
             c  == BCmp(nx, ny)
         IN  IF x.s = y.s THEN FRound(x.s, BAdd(nx, ny), lo, FALSE)
             ELSE IF c = 0 THEN FZero(0)
             ELSE IF c > 0 THEN FRound(x.s, BSub(nx, ny), lo, FALSE)
             ELSE FRound(y.s, BSub(ny, nx), lo, FALSE)

\* x - y
FSub(x, y) == FAdd(x, FNeg(y))

\* x / y for y # 0 (Python raises ZeroDivisionError otherwise)
FDiv(x, y) ==
    LET s == IF x.s = y.s THEN 0 ELSE 1
    IN  IF FIsZero(x) THEN FZero(s)
        ELSE LET d == BDivMod(BShl(x.m, Prec + 2), y.m)
             IN  FRound(s, d.q, x.e - y.e - (Prec + 2), d.r # <<>>)

\* x * c for a Python int 0 < c <= 127
FMulInt(x, c) == FRound(x.s, BMulSmall(x.m, c), x.e, FALSE)

\* -1, 0, 1 as x < y, x = y, x > y
FCmp(x, y) ==
    LET sg(z) == IF FIsZero(z) THEN 0 ELSE IF z.s = 1 THEN -1 ELSE 1
        mag   == IF x.e # y.e THEN (IF x.e < y.e THEN -1 ELSE 1)
                 ELSE BCmp(x.m, y.m)
    IN  IF sg(x) # sg(y) THEN (IF sg(x) < sg(y) THEN -1 ELSE 1)
        ELSE IF sg(x) = 0 THEN 0
        ELSE sg(x) * mag

(***************************************************************************)
(* Python int results: [s, n] stands for (-1)^s * n; zero has s = 0.       *)
(***************************************************************************)
IntOf(s, n) == [s |-> IF n = <<>> THEN 0 ELSE s, n |-> n]

INeg(i) == IntOf(1 - i.s, i.n)

\* round(x): the nearest int, ties to even
PyRound(x) ==
    IF FIsZero(x) THEN IntOf(0, <<>>)
    ELSE IF x.e >= 0 THEN IntOf(x.s, BShl(x.m, x.e))
    ELSE LET k    == -x.e
             q    == BShr(x.m, k)
             half == BBit(x.m, k - 1) = 1
             rest == ~BLowZero(x.m, k - 1)
             up   == half /\ (rest \/ BBit(q, 0) = 1)
         IN  IntOf(x.s, IF up THEN BAdd(q, <<1>>) ELSE q)

One == FFromInt(1)

Half == FDiv(One, FFromInt(2))

(***************************************************************************)
(* The values that stand for "not assigned yet", one for each shape of     *)
(* value: a record, a sequence, an int.                                    *)
(***************************************************************************)
NoneRec == [none |-> TRUE]

NoneSeq == <<>>

NoneId == 0

(***************************************************************************)
(* Strings are sequences of characters, so that lower() and the `in` of    *)
(* fetch_team_id are computed.                                             *)
(***************************************************************************)
UpperChars == <<"A", "B", "C", "D", "E", "F", "G", "H", "I", "J", "K", "L", "M",
                "N", "O", "P", "Q", "R", "S", "T", "U", "V", "W", "X", "Y", "Z">>

LowerChars == <<"a", "b", "c", "d", "e", "f", "g", "h", "i", "j", "k", "l", "m",
                "n", "o", "p", "q", "r", "s", "t", "u", "v", "w", "x", "y", "z">>

CharLower(c) ==
    IF \E k \in 1..Len(UpperChars) : UpperChars[k] = c
    THEN LowerChars[CHOOSE k \in 1..Len(UpperChars) : UpperChars[k] = c]
    ELSE c

\* str.lower()
StrLower(str) == [k \in 1..Len(str) |-> CharLower(str[k])]

\* a in b, for two strings
StrIn(a, b) ==
    \E k \in 0..(Len(b) - Len(a)) : SubSeq(b, k + 1, k + Len(a)) = a

(***************************************************************************)
(* What the program is given: the two names typed in, and the answers of   *)
(* nba_api (the static team list, the game log of a team, the box score of *)
(* a game).                                                                *)
(***************************************************************************)
\* teams.get_teams(), two of its entries
AllTeams == <<
    [id |-> 1610612747,
     full_name |-> <<"L", "o", "s", " ", "A", "n", "g", "e", "l", "e", "s", " ",
                     "L", "a", "k", "e", "r", "s">>,
     abbreviation |-> <<"L", "A", "L">>],
    [id |-> 1610612738,
     full_name |-> <<"B", "o", "s", "t", "o", "n", " ",
                     "C", "e", "l", "t", "i", "c", "s">>,
     abbreviation |-> <<"B", "O", "S">>] >>

TeamIds == {AllTeams[k].id : k \in 1..Len(AllTeams)}

\* the names typed in: an abbreviation, a part of a full name, no team
TeamInputs == { <<"l", "a", "l">>,
                <<"C", "e", "l", "t", "i", "c", "s">>,
                <<"S", "u", "n", "s">> }

\* PTS of a team in a game, and of its opponent, as the provider reports them
TeamPoints == {0, 200}

OppPoints == {0, 200}

\* the column names of a game log the provider may answer with
GameLogHeaders == { <<"Game_ID", "PTS">>, <<"GAME_ID", "PTS">>,
                    <<"GAMEID", "PTS">>, <<"Game_ID", "POINTS">> }

\* the games of the spec's scenario and the opponents' points in them
ScenarioPts == <<100, 95, 110, 90, 105>>

ScenarioOpp == <<90, 85, 100, 80, 95>>

\* num_games=5 of fetch_recent_games
NumGames == 5

\* the most rows a game log is given in the model, and the fewest
MaxRows == 6

MinRows == NumGames - 1

\* the longest sequence of games compute_team_stats is called with directly
MaxGames == 3

\* a row of a game log with the columns of headers h
Row(h, gid, pts) ==
    [k \in 1..Len(h) |-> IF h[k] \in {"PTS", "POINTS"} THEN pts ELSE gid]

\* rowSet of a game log: n games with p points each
GameLog(h, n, p) == [k \in 1..n |-> Row(h, <<"G", k>>, p)]

\* TeamGameLog(team_id).get_dict()["resultSets"][0]
GameLogResponses ==
    { [rowSet |-> GameLog(h, n, p), headers |-> h] :
        h \in GameLogHeaders, n \in MinRows..MaxRows, p \in TeamPoints }

BoxHeaders == <<"TEAM_ID", "PTS">>

\* BoxScoreTraditionalV2(game_id).get_dict()["resultSets"][1]["rowSet"], asked
\* for by team_id: the two teams' rows in either order, or the team's row alone
BoxScores(game_id, team_id) ==
    LET opps  == IF game_id[1] = "S" THEN {ScenarioOpp[game_id[2]]} ELSE OppPoints
        other == CHOOSE t \in TeamIds : t # team_id
    IN  { << <<team_id, 0>>, <<other, o>> >> : o \in opps }
          \cup { << <<other, o>>, <<team_id, 0>> >> : o \in opps }
          \cup { << <<team_id, 0>> >> }

(***************************************************************************)
(* Exceptions                                                              *)
(***************************************************************************)
Exception(type, origin, arg) == [type |-> type, origin |-> origin, arg |-> arg]

\* an exception of the HTTP layer under an endpoint of nba_api
APIError(endpoint) == Exception("ConnectionError", endpoint, <<>>)

(***************************************************************************)
(* The functions                                                           *)
(***************************************************************************)
Has(seq, x) == \E k \in 1..Len(seq) : seq[k] = x

\* list.index(x), for x in the list
Index(seq, x) == CHOOSE k \in 1..Len(seq) : seq[k] = x /\ \A j \in 1..(k - 1) : seq[j] # x

RECURSIVE FirstTeam(_, _)
FirstTeam(team_name_lower, k) ==
    IF k > Len(AllTeams) THEN 0
    ELSE IF StrIn(team_name_lower, StrLower(AllTeams[k].full_name))
            \/ team_name_lower = StrLower(AllTeams[k].abbreviation)
    THEN k
    ELSE FirstTeam(team_name_lower, k + 1)

FetchTeamId(team_name) ==
    LET k == FirstTeam(StrLower(team_name), 1)
    IN  IF k = 0
        THEN [ok |-> FALSE,
              exc |-> Exception("ValueError", "fetch_team_id", team_name)]
        ELSE [ok |-> TRUE, id |-> AllTeams[k].id, full |-> AllTeams[k].full_name]

FetchRecentGames(team_id, num_games, data) ==
    IF Len(data.rowSet) < num_games
    THEN [ok |-> FALSE,
          exc |-> Exception("ValueError", "fetch_recent_games", <<team_id>>)]
    ELSE [ok |-> TRUE, games |-> SubSeq(data.rowSet, 1, num_games),
          headers |-> data.headers]

RECURSIVE FirstOtherRow(_, _, _, _)
FirstOtherRow(rows, team_id, team_id_index, k) ==
    IF k > Len(rows) THEN 0
    ELSE IF rows[k][team_id_index] # team_id THEN k
    ELSE FirstOtherRow(rows, team_id, team_id_index, k + 1)

GetOpponentPoints(game_id, team_id, rows) ==
    LET team_id_index == Index(BoxHeaders, "TEAM_ID")
        pts_index     == Index(BoxHeaders, "PTS")
        k             == FirstOtherRow(rows, team_id, team_id_index, 1)
    IN  IF k = 0
        THEN [ok |-> FALSE,
              exc |-> Exception("ValueError", "get_opponent_points", game_id)]
        ELSE [ok |-> TRUE, pts |-> rows[k][pts_index]]

\* the averages over num_games games, whatever the length of games
TeamAveragesFixedCount(total_scored, total_allowed, n) ==
    LET avg_scored  == FDiv(FFromInt(total_scored), FFromInt(NumGames))
        avg_allowed == FDiv(FFromInt(total_allowed), FFromInt(NumGames))
    IN  <<avg_scored, avg_allowed, FSub(avg_scored, avg_allowed)>>

\* the three values compute_team_stats returns
TeamAverages(total_scored, total_allowed, n) ==
    LET avg_scored  == FDiv(FFromInt(total_scored), FFromInt(n))
        avg_allowed == FDiv(FFromInt(total_allowed), FFromInt(n))
    IN  <<avg_scored, avg_allowed, FSub(avg_scored, avg_allowed)>>

ZeroDivision(origin) == Exception("ZeroDivisionError", origin, <<>>)

\* prob_to_moneyline without the minus sign of its first branch
ProbToMoneylineUnsigned(prob) ==
    IF FCmp(prob, Half) >= 0
    THEN LET d == FSub(One, prob)
         IN  IF FIsZero(d)
             THEN [ok |-> FALSE, exc |-> ZeroDivision("prob_to_moneyline")]
             ELSE [ok |-> TRUE, value |-> PyRound(FMulInt(FDiv(prob, d), 100))]
    ELSE IF FIsZero(prob)
         THEN [ok |-> FALSE, exc |-> ZeroDivision("prob_to_moneyline")]
         ELSE [ok |-> TRUE,
               value |-> PyRound(FMulInt(FDiv(FSub(One, prob), prob), 100))]

\* prob_to_moneyline with prob > 0.5 for prob >= 0.5
ProbToMoneylineStrict(prob) ==
    IF FCmp(prob, Half) > 0
    THEN LET d == FSub(One, prob)
         IN  IF FIsZero(d)
             THEN [ok |-> FALSE, exc |-> ZeroDivision("prob_to_moneyline")]
             ELSE [ok |-> TRUE, value |-> INeg(PyRound(FMulInt(FDiv(prob, d), 100)))]
    ELSE IF FIsZero(prob)
         THEN [ok |-> FALSE, exc |-> ZeroDivision("prob_to_moneyline")]
         ELSE [ok |-> TRUE,
               value |-> PyRound(FMulInt(FDiv(FSub(One, prob), prob), 100))]

\* prob_to_moneyline with the ratio of its first branch in both branches
ProbToMoneylineSameRatio(prob) ==
    LET d == FSub(One, prob)
    IN  IF FIsZero(d)
        THEN [ok |-> FALSE, exc |-> ZeroDivision("prob_to_moneyline")]
        ELSE IF FCmp(prob, Half) >= 0
        THEN [ok |-> TRUE, value |-> INeg(PyRound(FMulInt(FDiv(prob, d), 100)))]
        ELSE [ok |-> TRUE, value |-> PyRound(FMulInt(FDiv(prob, d), 100))]

ProbToMoneyline(prob) ==
    IF FCmp(prob, Half) >= 0
    THEN LET d == FSub(One, prob)
         IN  IF FIsZero(d)
             THEN [ok |-> FALSE, exc |-> ZeroDivision("prob_to_moneyline")]
             ELSE [ok |-> TRUE, value |-> INeg(PyRound(FMulInt(FDiv(prob, d), 100)))]
    ELSE IF FIsZero(prob)
         THEN [ok |-> FALSE, exc |-> ZeroDivision("prob_to_moneyline")]
         ELSE [ok |-> TRUE,
               value |-> PyRound(FMulInt(FDiv(FSub(One, prob), prob), 100))]

\* the margin with only the second differential halved
ExpectedMarginHalfOfSecond(stats1, stats2) ==
    FSub(stats1[3], FDiv(stats2[3], FFromInt(2)))

ExpectedMargin(stats1, stats2) == FDiv(FSub(stats1[3], stats2[3]), FFromInt(2))

\* the handicap line without abs() in its second branch
HandicapLineNoAbs(margin, full1, full2) ==
    IF FCmp(margin, FZero(0)) > 0
    THEN [kind |-> "favorite", minus |-> full1, plus |-> full2, points |-> margin]
    ELSE IF FCmp(margin, FZero(0)) < 0
    THEN [kind |-> "favorite", minus |-> full2, plus |-> full1, points |-> margin]
    ELSE [kind |-> "even"]

HandicapLine(margin, full1, full2) ==
    IF FCmp(margin, FZero(0)) > 0
    THEN [kind |-> "favorite", minus |-> full1, plus |-> full2, points |-> FAbs(margin)]
    ELSE IF FCmp(margin, FZero(0)) < 0
    THEN [kind |-> "favorite", minus |-> full2, plus |-> full1, points |-> FAbs(margin)]
    ELSE [kind |-> "even"]

\* scale = 5.0
ScalePoints == 5

\* math.exp on the arguments the model reaches (each a whole number), as the
\* C library computes it
ExpTable == {
    \* exp(-40.0) = 4.248354255291589e-18
    <<FFromInt(-40), [s |-> 0, m |-> <<10164772, 9933385, 19>>, e |-> -110]>>,
    \* exp(-36.0) = 2.3195228302435696e-16
    <<FFromInt(-36), [s |-> 0, m |-> <<14540900, 11977647, 16>>, e |-> -104]>>,
    \* exp(-32.0) = 1.2664165549094176e-14
    <<FFromInt(-32), [s |-> 0, m |-> <<6382696, 8676599, 28>>, e |-> -99]>>,
    \* exp(-28.0) = 6.914400106940203e-13
    <<FFromInt(-28), [s |-> 0, m |-> <<7164858, 5500957, 24>>, e |-> -93]>>,
    \* exp(-24.0) = 3.775134544279098e-11
    <<FFromInt(-24), [s |-> 0, m |-> <<15278730, 12650383, 20>>, e |-> -87]>>,
    \* exp(-20.0) = 2.061153622438558e-09
    <<FFromInt(-20), [s |-> 0, m |-> <<15954535, 11830869, 17>>, e |-> -81]>>,
    \* exp(-16.0) = 1.1253517471925912e-07
    <<FFromInt(-16), [s |-> 0, m |-> <<15631819, 3496890, 30>>, e |-> -76]>>,
    \* exp(-12.0) = 6.14421235332821e-06
    <<FFromInt(-12), [s |-> 0, m |-> <<4439179, 12930107, 25>>, e |-> -70]>>,
    \* exp(-8.0) = 0.00033546262790251185
    <<FFromInt(-8), [s |-> 0, m |-> <<1058733, 16523524, 21>>, e |-> -64]>>,
    \* exp(-4.0) = 0.01831563888873418
    <<FFromInt(-4), [s |-> 0, m |-> <<2178292, 12670392, 18>>, e |-> -58]>>,
    \* exp(-0.0) = 1.0
    <<FNeg(FFromInt(0)), [s |-> 0, m |-> <<0, 0, 16>>, e |-> -52]>>,
    \* exp(0.0) = 1.0
    <<FFromInt(0), [s |-> 0, m |-> <<0, 0, 16>>, e |-> -52]>>,
    \* exp(4.0) = 54.598150033144236
    <<FFromInt(4), [s |-> 0, m |-> <<2570840, 5017646, 27>>, e |-> -47]>>,
    \* exp(8.0) = 2980.9579870417283
    <<FFromInt(8), [s |-> 0, m |-> <<4656238, 4844157, 23>>, e |-> -41]>>,
    \* exp(12.0) = 162754.79141900392
    <<FFromInt(12), [s |-> 0, m |-> <<13859994, 14554708, 19>>, e |-> -35]>>,
    \* exp(16.0) = 8886110.520507872
    <<FFromInt(16), [s |-> 0, m |-> <<11010080, 15920080, 16>>, e |-> -29]>>,
    \* exp(20.0) = 485165195.4097903
    <<FFromInt(20), [s |-> 0, m |-> <<6875140, 15403147, 28>>, e |-> -24]>>,
    \* exp(24.0) = 26489122129.84347
    <<FFromInt(24), [s |-> 0, m |-> <<4677559, 11239349, 24>>, e |-> -18]>>,
    \* exp(28.0) = 1446257064291.475
    <<FFromInt(28), [s |-> 0, m |-> <<9844634, 768567, 21>>, e |-> -12]>>,
    \* exp(32.0) = 78962960182680.69
    <<FFromInt(32), [s |-> 0, m |-> <<4941356, 16007116, 17>>, e |-> -6]>>,
    \* exp(36.0) = 4311231547115195.0
    <<FFromInt(36), [s |-> 0, m |-> <<13766006, 10622369, 30>>, e |-> -1]>>,
    \* exp(40.0) = 2.3538526683702e+17
    <<FFromInt(40), [s |-> 0, m |-> <<7959275, 2231609, 26>>, e |-> 5]>>
}
MathExp(x) == (CHOOSE r \in ExpTable : r[1] = x)[2]

WinProbability(margin, scale) ==
    FDiv(One, FAdd(One, MathExp(FDiv(FNeg(margin), scale))))

(***************************************************************************)
(* The state: where the run is (pc), the locals of main, the activation of *)
(* compute_team_stats (frame), what was printed (out), the exception main  *)
(* caught (caught), the exception that ended the run (exc), and the value  *)
(* returned to a caller other than main (result).                          *)
(***************************************************************************)
VARIABLES pc, team1_input, team2_input, team1_id, team1_full, team2_id,
          team2_full, games1, headers1, games2, headers2, frame, team1_stats,
          team2_stats, expected_margin, handicap_line, win_prob_team1,
          win_prob_team2, moneyline_team1, moneyline_team2, out, caught, exc,
          result

inputVars == <<team1_input, team2_input>>

teamVars == <<team1_id, team1_full, team2_id, team2_full>>

gameVars == <<games1, headers1, games2, headers2>>

statVars == <<team1_stats, team2_stats>>

oddsVars == <<expected_margin, handicap_line, win_prob_team1, win_prob_team2,
              moneyline_team1, moneyline_team2>>

vars == <<pc, inputVars, teamVars, gameVars, frame, statVars, oddsVars, out,
          caught, exc, result>>

\* the locals of compute_team_stats at its call; seen is the history of the
\* opponents' points the box scores gave during the call
NewFrame(team_id, games, headers, ret) ==
    [team_id |-> team_id, games |-> games, headers |-> headers, ret |-> ret,
     pts_index |-> 0, game_id_index |-> 0, total_scored |-> 0,
     total_allowed |-> 0, i |-> 1, seen |-> <<>>]

Unassigned ==
    /\ team1_input = NoneSeq /\ team2_input = NoneSeq
    /\ team1_id = NoneId /\ team1_full = NoneSeq
    /\ team2_id = NoneId /\ team2_full = NoneSeq
    /\ games1 = NoneSeq /\ headers1 = NoneSeq
    /\ games2 = NoneSeq /\ headers2 = NoneSeq
    /\ team1_stats = NoneSeq /\ team2_stats = NoneSeq
    /\ expected_margin = NoneRec /\ handicap_line = NoneRec
    /\ win_prob_team1 = NoneRec /\ win_prob_team2 = NoneRec
    /\ moneyline_team1 = NoneRec /\ moneyline_team2 = NoneRec
    /\ out = <<>> /\ caught = NoneRec /\ exc = NoneRec /\ result = NoneSeq

\* the start of main
Init ==
    /\ pc = "input"
    /\ frame = NoneRec
    /\ Unassigned

\* input(...).strip(), twice
ReadInputs ==
    /\ pc = "input"
    /\ team1_input' \in TeamInputs
    /\ team2_input' \in TeamInputs
    /\ pc' = "lookup1"
    /\ UNCHANGED <<teamVars, gameVars, frame, statVars, oddsVars, out, caught,
                   exc, result>>

\* team1_id, team1_full = fetch_team_id(team1_input), in the first try
Lookup1 ==
    /\ pc = "lookup1"
    /\ LET r == FetchTeamId(team1_input)
       IN  IF r.ok
           THEN /\ team1_id' = r.id
                /\ team1_full' = r.full
                /\ pc' = "lookup2"
                /\ UNCHANGED <<out, caught>>
           ELSE /\ caught' = r.exc
                /\ out' = Append(out, "issue finding team information")
                /\ pc' = "returned"
                /\ UNCHANGED <<team1_id, team1_full>>
    /\ UNCHANGED <<inputVars, team2_id, team2_full, gameVars, frame, statVars,
                   oddsVars, exc, result>>

\* team2_id, team2_full = fetch_team_id(team2_input), in the first try
Lookup2 ==
    /\ pc = "lookup2"
    /\ LET r == FetchTeamId(team2_input)
       IN  IF r.ok
           THEN /\ team2_id' = r.id
                /\ team2_full' = r.full
                /\ pc' = "fetch1"
                /\ UNCHANGED <<out, caught>>
           ELSE /\ caught' = r.exc
                /\ out' = Append(out, "issue finding team information")
                /\ pc' = "returned"
                /\ UNCHANGED <<team2_id, team2_full>>
    /\ UNCHANGED <<inputVars, team1_id, team1_full, gameVars, frame, statVars,
                   oddsVars, exc, result>>

\* Fetch1 without the return of its except clause
Fetch1NoReturn ==
    /\ pc = "fetch1"
    /\ \/ \E data \in GameLogResponses :
            LET r == FetchRecentGames(team1_id, NumGames, data)
            IN  IF r.ok
                THEN /\ games1' = r.games
                     /\ headers1' = r.headers
                     /\ pc' = "fetch2"
                     /\ UNCHANGED <<out, caught>>
                ELSE /\ caught' = r.exc
                     /\ out' = Append(out, "problem fetching recent games")
                     /\ pc' = "fetch2"
                     /\ UNCHANGED <<games1, headers1>>
       \/ /\ caught' = APIError("TeamGameLog")
          /\ out' = Append(out, "problem fetching recent games")
          /\ pc' = "fetch2"
          /\ UNCHANGED <<games1, headers1>>
    /\ UNCHANGED <<inputVars, teamVars, games2, headers2, frame, statVars,
                   oddsVars, exc, result>>

\* games1, headers1 = fetch_recent_games(team1_id), in the second try
Fetch1 ==
    /\ pc = "fetch1"
    /\ \/ \E data \in GameLogResponses :
            LET r == FetchRecentGames(team1_id, NumGames, data)
            IN  IF r.ok
                THEN /\ games1' = r.games
                     /\ headers1' = r.headers
                     /\ pc' = "fetch2"
                     /\ UNCHANGED <<out, caught>>
                ELSE /\ caught' = r.exc
                     /\ out' = Append(out, "problem fetching recent games")
                     /\ pc' = "returned"
                     /\ UNCHANGED <<games1, headers1>>
       \/ /\ caught' = APIError("TeamGameLog")
          /\ out' = Append(out, "problem fetching recent games")
          /\ pc' = "returned"
          /\ UNCHANGED <<games1, headers1>>
    /\ UNCHANGED <<inputVars, teamVars, games2, headers2, frame, statVars,
                   oddsVars, exc, result>>

\* games2, headers2 = fetch_recent_games(team2_id), in the second try; the
\* endpoint names its columns as it did for the first team
Fetch2 ==
    /\ pc = "fetch2"
    /\ \/ \E data \in GameLogResponses :
            /\ data.headers = headers1
            /\ LET r == FetchRecentGames(team2_id, NumGames, data)
               IN  IF r.ok
                   THEN /\ games2' = r.games
                        /\ headers2' = r.headers
                        /\ pc' = "call1"
                        /\ UNCHANGED <<out, caught>>
                   ELSE /\ caught' = r.exc
                        /\ out' = Append(out, "problem fetching recent games")
                        /\ pc' = "returned"
                        /\ UNCHANGED <<games2, headers2>>
       \/ /\ caught' = APIError("TeamGameLog")
          /\ out' = Append(out, "problem fetching recent games")
          /\ pc' = "returned"
          /\ UNCHANGED <<games2, headers2>>
    /\ UNCHANGED <<inputVars, teamVars, games1, headers1, frame, statVars,
                   oddsVars, exc, result>>

\* the call of compute_team_stats(team1_id, games1, headers1)
Call1 ==
    /\ pc = "call1"
    /\ frame' = NewFrame(team1_id, games1, headers1, "team1")
    /\ pc' = "cts_enter"
    /\ UNCHANGED <<inputVars, teamVars, gameVars, statVars, oddsVars, out,
                   caught, exc, result>>

\* the call of compute_team_stats(team2_id, games2, headers2)
Call2 ==
    /\ pc = "call2"
    /\ frame' = NewFrame(team2_id, games2, headers2, "team2")
    /\ pc' = "cts_enter"
    /\ UNCHANGED <<inputVars, teamVars, gameVars, statVars, oddsVars, out,
                   caught, exc, result>>

\* an exception nothing catches: compute_team_stats and prob_to_moneyline
\* are called outside the try blocks of main
Raise(e) ==
    /\ exc' = e
    /\ pc' = "raised"
    /\ frame' = NoneRec

\* compute_team_stats: the column indexes and the two totals
CtsEnter ==
    /\ pc = "cts_enter"
    /\ LET h == frame.headers
       IN  IF ~Has(h, "PTS")
           THEN Raise(Exception("ValueError", "compute_team_stats", <<"PTS">>))
           ELSE IF ~Has(h, "GAME_ID") /\ ~Has(h, "Game_ID")
           THEN Raise(Exception("ValueError", "compute_team_stats", <<"GAME_ID">>))
           ELSE /\ frame' = [frame EXCEPT
                                !.pts_index = Index(h, "PTS"),
                                !.game_id_index = IF Has(h, "GAME_ID")
                                                  THEN Index(h, "GAME_ID")
                                                  ELSE Index(h, "Game_ID"),
                                !.total_scored = 0,
                                !.total_allowed = 0,
                                !.i = 1]
                /\ pc' = "cts_loop"
                /\ exc' = exc
    /\ UNCHANGED <<inputVars, teamVars, gameVars, statVars, oddsVars, out,
                   caught, result>>

\* compute_team_stats: one turn of the loop, with its call of
\* get_opponent_points
CtsIter ==
    /\ pc = "cts_loop"
    /\ frame.i <= Len(frame.games)
    /\ LET game     == frame.games[frame.i]
           team_pts == game[frame.pts_index]
           game_id  == game[frame.game_id_index]
       IN  \/ \E rows \in BoxScores(game_id, frame.team_id) :
                LET r == GetOpponentPoints(game_id, frame.team_id, rows)
                IN  IF r.ok
                    THEN /\ frame' = [frame EXCEPT
                                        !.total_scored = @ + team_pts,
                                        !.total_allowed = @ + r.pts,
                                        !.i = @ + 1,
                                        !.seen = Append(@, r.pts)]
                         /\ UNCHANGED <<pc, exc>>
                    ELSE Raise(r.exc)
           \/ Raise(APIError("BoxScoreTraditionalV2"))
    /\ UNCHANGED <<inputVars, teamVars, gameVars, statVars, oddsVars, out,
                   caught, result>>

\* compute_team_stats: the averages and the return to the caller
CtsReturn ==
    /\ pc = "cts_loop"
    /\ frame.i > Len(frame.games)
    /\ IF Len(frame.games) = 0
       THEN /\ Raise(ZeroDivision("compute_team_stats"))
            /\ UNCHANGED <<statVars, result>>
       ELSE LET stats == TeamAverages(frame.total_scored, frame.total_allowed,
                                      Len(frame.games))
            IN  /\ frame' = NoneRec
                /\ exc' = exc
                /\ team1_stats' = IF frame.ret = "team1" THEN stats ELSE team1_stats
                /\ team2_stats' = IF frame.ret = "team2" THEN stats ELSE team2_stats
                /\ result' = IF frame.ret = "direct" THEN stats ELSE result
                /\ pc' = CASE frame.ret = "team1" -> "call2"
                           [] frame.ret = "team2" -> "print_stats"
                           [] OTHER -> "returned"
    /\ UNCHANGED <<inputVars, teamVars, gameVars, oddsVars, out, caught>>

\* the two lines of averages
PrintStats ==
    /\ pc = "print_stats"
    /\ out' = out \o <<"team1 stats", "team2 stats">>
    /\ pc' = "margin"
    /\ UNCHANGED <<inputVars, teamVars, gameVars, frame, statVars, oddsVars,
                   caught, exc, result>>

\* expected_margin, and its line
ComputeMargin ==
    /\ pc = "margin"
    /\ expected_margin' = ExpectedMargin(team1_stats, team2_stats)
    /\ out' = Append(out, "expected margin")
    /\ pc' = "handicap"
    /\ UNCHANGED <<inputVars, teamVars, gameVars, frame, statVars,
                   handicap_line, win_prob_team1, win_prob_team2,
                   moneyline_team1, moneyline_team2, caught, exc, result>>

\* handicap_line, and its line
Handicap ==
    /\ pc = "handicap"
    /\ handicap_line' = HandicapLine(expected_margin, team1_full, team2_full)
    /\ out' = Append(out, "handicap")
    /\ pc' = "logistic"
    /\ UNCHANGED <<inputVars, teamVars, gameVars, frame, statVars,
                   expected_margin, win_prob_team1, win_prob_team2,
                   moneyline_team1, moneyline_team2, caught, exc, result>>

\* win_prob_team1 = 1 / (1 + math.exp(-expected_margin / scale))
Logistic ==
    /\ pc = "logistic"
    /\ win_prob_team1' = WinProbability(expected_margin, FFromInt(ScalePoints))
    /\ pc' = "complement"
    /\ UNCHANGED <<inputVars, teamVars, gameVars, frame, statVars,
                   expected_margin, handicap_line, win_prob_team2,
                   moneyline_team1, moneyline_team2, out, caught, exc, result>>

\* win_prob_team2 = 1 - win_prob_team1
Complement ==
    /\ pc = "complement"
    /\ win_prob_team2' = FSub(One, win_prob_team1)
    /\ pc' = "moneyline1"
    /\ UNCHANGED <<inputVars, teamVars, gameVars, frame, statVars,
                   expected_margin, handicap_line, win_prob_team1,
                   moneyline_team1, moneyline_team2, out, caught, exc, result>>

\* moneyline_team1 = prob_to_moneyline(win_prob_team1)
Moneyline1 ==
    /\ pc = "moneyline1"
    /\ LET r == ProbToMoneyline(win_prob_team1)
       IN  IF r.ok
           THEN /\ moneyline_team1' = r.value
                /\ pc' = "moneyline2"
                /\ UNCHANGED <<exc, frame>>
           ELSE /\ Raise(r.exc)
                /\ UNCHANGED moneyline_team1
    /\ UNCHANGED <<inputVars, teamVars, gameVars, statVars, expected_margin,
                   handicap_line, win_prob_team1, win_prob_team2,
                   moneyline_team2, out, caught, result>>

\* moneyline_team2 = prob_to_moneyline(win_prob_team2)
Moneyline2 ==
    /\ pc = "moneyline2"
    /\ LET r == ProbToMoneyline(win_prob_team2)
       IN  IF r.ok
           THEN /\ moneyline_team2' = r.value
                /\ pc' = "print_odds"
                /\ UNCHANGED <<exc, frame>>
           ELSE /\ Raise(r.exc)
                /\ UNCHANGED moneyline_team2
    /\ UNCHANGED <<inputVars, teamVars, gameVars, statVars, expected_margin,
                   handicap_line, win_prob_team1, win_prob_team2,
                   moneyline_team1, out, caught, result>>

\* the win probabilities and the moneyline odds, and the end of main
PrintOdds ==
    /\ pc = "print_odds"
    /\ out' = out \o <<"team1 win probability", "team2 win probability",
                       "team1 moneyline", "team2 moneyline">>
    /\ pc' = "returned"
    /\ UNCHANGED <<inputVars, teamVars, gameVars, frame, statVars, oddsVars,
                   caught, exc, result>>

Next ==
    \/ ReadInputs \/ Lookup1 \/ Lookup2 \/ Fetch1 \/ Fetch2
    \/ Call1 \/ Call2 \/ CtsEnter \/ CtsIter \/ CtsReturn
    \/ PrintStats \/ ComputeMargin \/ Handicap \/ Logistic \/ Complement
    \/ Moneyline1 \/ Moneyline2 \/ PrintOdds

\* a run of main
Spec == Init /\ [][Next]_vars

(***************************************************************************)
(* compute_team_stats called on its own, with any sequence of at most      *)
(* MaxGames games or with the games of the spec's scenario.                *)
(***************************************************************************)
GameSeqs(h) ==
    UNION { { [k \in 1..n |-> Row(h, <<"G", k>>, p[k])] : p \in [1..n -> TeamPoints] } :
            n \in 0..MaxGames }

ScenarioGames(h) ==
    [k \in 1..Len(ScenarioPts) |-> Row(h, <<"S", k>>, ScenarioPts[k])]

InitStats ==
    /\ pc = "cts_enter"
    /\ \E t \in TeamIds, h \in GameLogHeaders :
         \E games \in GameSeqs(h) \cup {ScenarioGames(h)} :
            frame = NewFrame(t, games, h, "direct")
    /\ Unassigned

NextStats == CtsEnter \/ CtsIter \/ CtsReturn

SpecStats == InitStats /\ [][NextStats]_vars

(***************************************************************************)
(* The two conversions of main, from any win probability of team 1: k/n    *)
(* for n up to MaxDen, and the powers 2^-k for k up to MaxTinyExp.         *)
(***************************************************************************)
MaxDen == 41

MaxTinyExp == 54

ProbInputs ==
    { FDiv(FFromInt(k[1]), FFromInt(k[2])) :
        k \in { x \in (0..MaxDen) \X (1..MaxDen) : x[1] <= x[2] } }
      \cup { FRound(0, <<1>>, -k, FALSE) : k \in 1..MaxTinyExp }

InitML ==
    /\ pc = "complement"
    /\ frame = NoneRec
    /\ team1_input = NoneSeq /\ team2_input = NoneSeq
    /\ team1_id = NoneId /\ team1_full = NoneSeq
    /\ team2_id = NoneId /\ team2_full = NoneSeq
    /\ games1 = NoneSeq /\ headers1 = NoneSeq
    /\ games2 = NoneSeq /\ headers2 = NoneSeq
    /\ team1_stats = NoneSeq /\ team2_stats = NoneSeq
    /\ expected_margin = NoneRec /\ handicap_line = NoneRec
    /\ win_prob_team1 \in ProbInputs
    /\ win_prob_team2 = NoneRec
    /\ moneyline_team1 = NoneRec /\ moneyline_team2 = NoneRec
    /\ out = <<>> /\ caught = NoneRec /\ exc = NoneRec /\ result = NoneSeq

NextML == Complement \/ Moneyline1 \/ Moneyline2

SpecML == InitML /\ [][NextML]_vars

(***************************************************************************)
(* Properties of the two conversions (checked under SpecML)                *)
(***************************************************************************)
\* a Python int result as a TLA+ comparison with zero: -1, 0, 1
ISign(i) == IF i.n = <<>> THEN 0 ELSE IF i.s = 1 THEN -1 ELSE 1

\* abs(i) >= 100 for a Python int result
IAtLeast100(i) == BCmp(i.n, <<100>>) >= 0

IsProper(p) == ~FIsZero(p) /\ FCmp(p, One) < 0 /\ p.s = 0

IsDegenerate(p) == FIsZero(p) \/ FCmp(p, One) = 0

\* prob_to_moneyline was called for team 1, for team 2
Converted1 == pc \in {"moneyline2", "print_odds", "returned"}
                \/ (pc = "raised" /\ win_prob_team2 # NoneRec)

Converted2 == pc \in {"print_odds", "returned"}
                \/ (pc = "raised" /\ moneyline_team1 # NoneRec)

SignContract(p, ml) ==
    /\ FCmp(p, Half) >= 0 => ISign(ml) <= 0
    /\ FCmp(p, Half) < 0 => ISign(ml) > 0

\* C3: for every probability 0 < p < 1 the conversion returns a moneyline,
\* which is <= 0 when p >= 0.5 and > 0 when p < 0.5.
C3_SignContract ==
    /\ (Converted1 /\ IsProper(win_prob_team1))
          => moneyline_team1 # NoneRec
             /\ SignContract(win_prob_team1, moneyline_team1)
    /\ (Converted2 /\ IsProper(win_prob_team2))
          => moneyline_team2 # NoneRec
             /\ SignContract(win_prob_team2, moneyline_team2)

\* both branches of the conversion were taken on proper probabilities
C3_Witness ==
    /\ moneyline_team1 # NoneRec /\ moneyline_team2 # NoneRec
    /\ IsProper(win_prob_team1) /\ FCmp(win_prob_team1, Half) > 0
    /\ ISign(moneyline_team1) < 0 /\ ISign(moneyline_team2) > 0

\* C4: the conversion of a probability that is exactly 0 or exactly 1 fails
\* with DegenerateProbabilityError.
C4_DegenerateProbabilityError ==
    /\ (Converted1 /\ IsDegenerate(win_prob_team1))
          => pc = "raised" /\ exc.type = "DegenerateProbabilityError"
    /\ (Converted2 /\ IsDegenerate(win_prob_team2))
          => pc = "raised" /\ exc.type = "DegenerateProbabilityError"

RECURSIVE SumSeq(_)
SumSeq(seq) == IF seq = <<>> THEN 0 ELSE Head(seq) + SumSeq(Tail(seq))

\* the unweighted arithmetic mean of a non-empty sequence of ints, as a float
Mean(seq) == FDiv(FFromInt(SumSeq(seq)), FFromInt(Len(seq)))

\* the PTS column of the games compute_team_stats was called with
TeamPts(f) == [k \in 1..Len(f.games) |-> f.games[k][Index(f.headers, "PTS")]]

\* C1: called with a non-empty sequence of games, compute_team_stats returns
\* the mean of the team's points, the mean of the opponents' points over
\* the same games, and the first minus the second.
C1_Means ==
    [][(pc = "cts_loop" /\ pc' = "returned")
         => /\ Len(frame.games) > 0
            /\ Len(frame.seen) = Len(frame.games)
            /\ result' = << Mean(TeamPts(frame)), Mean(frame.seen),
                            FSub(Mean(TeamPts(frame)), Mean(frame.seen)) >>]_vars

\* the games of the scenario gave 100, 90 and 10
C1_Witness ==
    /\ pc = "returned"
    /\ result = <<FFromInt(100), FFromInt(90), FFromInt(10)>>

\* C2: compute_team_stats called with no games fails with
\* InsufficientDataError and returns no stats.
C2_InsufficientDataError ==
    [][(pc = "cts_loop" /\ frame.games = <<>>)
         => /\ pc' = "raised"
            /\ exc'.type = "InsufficientDataError"
            /\ result' = NoneSeq]_vars

(***************************************************************************)
(* Properties of a run of main (checked under Spec)                        *)
(***************************************************************************)
\* what the run prints of its result
ResultTags == {"team1 stats", "team2 stats", "expected margin", "handicap",
               "team1 win probability", "team2 win probability",
               "team1 moneyline", "team2 moneyline"}

Shown == {out[k] : k \in 1..Len(out)} \cap ResultTags

Ended == pc \in {"returned", "raised"}

GameIds(games, headers) ==
    {games[k][j] : k \in 1..Len(games),
                   j \in {i \in 1..Len(headers) : headers[i] \in {"GAME_ID", "Game_ID"}}}

C6_NoPartialResults == Ended => Shown = {} \/ Shown = ResultTags

EqualDiffs ==
    /\ team1_stats # NoneSeq /\ team2_stats # NoneSeq
    /\ FCmp(team1_stats[3], team2_stats[3]) = 0

\* C7: with equal average differentials the expected margin is 0, the
\* match is even, the win probability of team 1 is 0.5 and both moneylines
\* are -100.
C7_EvenMatch ==
    EqualDiffs
      => /\ pc # "raised"
         /\ expected_margin # NoneRec => FIsZero(expected_margin)
         /\ handicap_line # NoneRec => handicap_line = [kind |-> "even"]
         /\ win_prob_team1 # NoneRec => win_prob_team1 = Half
         /\ Converted1 => moneyline_team1 = IntOf(1, <<100>>)
         /\ Converted2 => moneyline_team2 = IntOf(1, <<100>>)

C7_Witness ==
    /\ pc = "returned" /\ EqualDiffs
    /\ handicap_line = [kind |-> "even"]
    /\ moneyline_team1 = IntOf(1, <<100>>)
    /\ moneyline_team2 = IntOf(1, <<100>>)
    /\ Shown = ResultTags

\* C8: a positive margin favours team 1 by the margin, a negative one
\* favours team 2 by its absolute value, a zero one is an even match; the
\* points of a favourite are positive.
C8_Favorite ==
    handicap_line # NoneRec
      => /\ FCmp(expected_margin, FZero(0)) > 0
              => handicap_line = [kind |-> "favorite", minus |-> team1_full,
                                  plus |-> team2_full, points |-> expected_margin]
         /\ FCmp(expected_margin, FZero(0)) < 0
              => handicap_line = [kind |-> "favorite", minus |-> team2_full,
                                  plus |-> team1_full,
                                  points |-> FNeg(expected_margin)]
         /\ FCmp(expected_margin, FZero(0)) = 0
              => handicap_line = [kind |-> "even"]
         /\ handicap_line.kind = "favorite"
              => FCmp(handicap_line.points, FZero(0)) > 0

\* team 2 of two different teams is the favourite
C8_Witness ==
    /\ handicap_line # NoneRec
    /\ FCmp(expected_margin, FZero(0)) < 0
    /\ team1_full # team2_full
    /\ handicap_line.minus = team2_full
    /\ handicap_line.points = FAbs(expected_margin)

\* C9: twice the expected margin is the difference of the two average
\* differentials, and the margin of the teams swapped is its negative.
C9_HalfDifference ==
    expected_margin # NoneRec
      => /\ FCmp(FAdd(expected_margin, expected_margin),
                 FSub(team1_stats[3], team2_stats[3])) = 0
         /\ FCmp(expected_margin,
                 FNeg(ExpectedMargin(team2_stats, team1_stats))) = 0

\* a margin other than 0 from two differentials other than 0
C9_Witness ==
    /\ expected_margin # NoneRec
    /\ ~FIsZero(expected_margin)
    /\ ~FIsZero(team1_stats[3]) /\ ~FIsZero(team2_stats[3])
    /\ FCmp(team1_stats[3], team2_stats[3]) < 0
=============================================================================
